---- MODULE Spec2Model ----
(***************************************************************************)
(* Model of the transaction-fee reconciliation programs of                 *)
(* tx-fee-soundness: tx_fee_compare.py (two-endpoint comparison),          *)
(* txfeecompare.py (multi-endpoint comparison), txfeebatch.py (batch),     *)
(* txfeeapp.py (single transaction) and compare_etherscan_vs_rpc.py.       *)
(*                                                                         *)
(* An Optional[int] / Optional[str] of the Python code is a sequence of    *)
(* length at most one: None is <<>>, the value x is <<x>>.  A source (the  *)
(* web3 object) is the bundle of the answers it gives to the queries.      *)
(***************************************************************************)
EXTENDS Integers, Sequences, FiniteSets, TLC

VARIABLES
    pc,         \* position of the running program
    w3,         \* the source bundle queried by the single-source programs
    view,       \* TxView returned by tx_fee_compare.build_view
    row,        \* fields derived by one iteration of the txfeebatch loop
    app,        \* values derived by txfeeapp.main
    rpcres,     \* dict returned by compare_etherscan_vs_rpc.fetch_via_rpc
    endpoint,   \* EndpointResult returned by txfeecompare.check_endpoint
    args,       \* tx_fee_compare.main: parsed command line
    w3_2,       \* tx_fee_compare.main: TRUE when the secondary RPC is connected
    v1, v2,     \* tx_fee_compare.main: primary and secondary TxView
    comparison, \* tx_fee_compare.main: result of compare_views, or None
    mismatches, \* tx_fee_compare.main: fields listed as mismatched (text mode)
    results,    \* txfeecompare.main: list of EndpointResult
    notes,      \* txfeecompare.main: summarize_inconsistencies(results)
    exit_code,  \* exit code of the comparison program, None while it runs
    raw,        \* input string of normalize_hash
    norm,       \* tx_fee_compare.normalize_hash(raw)
    bnorm,      \* txfeebatch.normalize_hash(raw)
    again,      \* normalize_hash applied to its own output
    bargs,              \* txfeebatch.main: parsed command line
    hashes_raw,         \* txfeebatch.main: load_hashes(args)
    batch_latest,       \* txfeebatch.main: latest_block, read once before the loop
    any_error,          \* txfeebatch.main
    any_fee_violation,  \* txfeebatch.main
    printed,            \* txfeebatch.main: what each iteration of the loop printed
    queries,    \* build_view step by step: the queries issued so far, in order
    frame,      \* build_view step by step: the answers received so far
    returned    \* build_view step by step: number of TxViews returned

viewVars == <<w3, view, row, app, rpcres, endpoint>>
mainVars == <<args, w3_2, v1, v2, comparison, mismatches>>
multiVars == <<results, notes>>
hashVars == <<raw, norm, bnorm, again>>
batchVars == <<bargs, hashes_raw, batch_latest, any_error, any_fee_violation, printed>>

stepVars == <<queries, frame, returned>>

vars == <<pc, viewVars, mainVars, multiVars, exit_code, hashVars, batchVars, stepVars>>

(***************************************************************************)
(* Bounds of the model.                                                    *)
(***************************************************************************)
MaxBlock == 2   \* block numbers are 1..MaxBlock, the chain head 0..MaxBlock
MaxGas == 1     \* gasUsed ranges over 0..MaxGas
MaxPrice == 2   \* gas prices (wei) range over 0..MaxPrice
HexLen == 3     \* hex digits of a hash; stands for the 64 of a 32-byte hash

(***************************************************************************)
(* Optional values.                                                        *)
(***************************************************************************)
None == <<>>
Some(x) == <<x>>
Val(o) == o[1]
Opt(S) == {None} \cup {Some(x) : x \in S}

\* Python truthiness of an Optional[int]: None and 0 are falsy.
Truthy(o) == o # None /\ Val(o) # 0

\* Python `a or b` on Optional[int] operands.
PyOr(a, b) == IF Truthy(a) THEN a ELSE b

PyMax(a, b) == IF a >= b THEN a ELSE b

(***************************************************************************)
(* The answers of a source.                                                *)
(***************************************************************************)
ChainIds == {1, 5}
Statuses == {0, 1}
Messages == {"timeout", "pending"}

\* eth.chain_id and eth.block_number: None stands for "the query raised".
ChainIdAnswers == Opt(ChainIds)
LatestAnswers == Opt(0..MaxBlock)

\* eth.get_transaction: found / TransactionNotFound / any other exception.
TxAnswers ==
    {[res |-> "ok", msg |-> "", gasPrice |-> g, blockNumber |-> b] :
        g \in Opt(0..MaxPrice), b \in {None, Some(1)}}
    \cup {[res |-> "not_found", msg |-> "", gasPrice |-> None, blockNumber |-> None]}
    \cup {[res |-> "error", msg |-> m, gasPrice |-> None, blockNumber |-> None] :
            m \in Messages}

\* eth.get_transaction_receipt: found / TransactionNotFound / other exception.
ReceiptAnswers ==
    {[res |-> "ok", msg |-> "", blockNumber |-> b, status |-> s, gasUsed |-> u,
      effectiveGasPrice |-> e, gasPrice |-> g] :
        b \in Opt(1..MaxBlock), s \in Opt(Statuses), u \in Opt(0..MaxGas),
        e \in Opt(0..MaxPrice), g \in {None, Some(MaxPrice)}}
    \cup {[res |-> "not_found", msg |-> "", blockNumber |-> None, status |-> None,
           gasUsed |-> None, effectiveGasPrice |-> None, gasPrice |-> None]}
    \cup {[res |-> "error", msg |-> m, blockNumber |-> None, status |-> None,
           gasUsed |-> None, effectiveGasPrice |-> None, gasPrice |-> None] :
            m \in Messages}

Sources ==
    [chain_id : ChainIdAnswers, block_number : LatestAnswers,
     tx : TxAnswers, rcpt : ReceiptAnswers]

NoSource ==
    [chain_id |-> None, block_number |-> None,
     tx |-> [res |-> "not_found", msg |-> "", gasPrice |-> None, blockNumber |-> None],
     rcpt |-> [res |-> "not_found", msg |-> "", blockNumber |-> None, status |-> None,
               gasUsed |-> None, effectiveGasPrice |-> None, gasPrice |-> None]]

(***************************************************************************)
(* Strings are sequences of one-character strings.                         *)
(***************************************************************************)
HexDigits == {"0", "a", "A"}
Chars == HexDigits \cup {"x", " ", "_", "g"}

Strings(n) == UNION {[1..k -> Chars] : k \in 0..n}

\* str.lower() on one character.
LowerChar(c) == IF c = "A" THEN "a" ELSE c

lower(s) == [i \in 1..Len(s) |-> LowerChar(s[i])]

RECURSIVE lstrip(_)
lstrip(s) == IF s # <<>> /\ Head(s) = " " THEN lstrip(Tail(s)) ELSE s

RECURSIVE rstrip(_)
rstrip(s) ==
    IF s # <<>> /\ s[Len(s)] = " " THEN rstrip(SubSeq(s, 1, Len(s) - 1)) ELSE s

\* str.strip()
strip(s) == rstrip(lstrip(s))

\* str.startswith("0x")
startswith_0x(s) == Len(s) >= 2 /\ s[1] = "0" /\ s[2] = "x"

\* s[2:]
From2(s) == SubSeq(s, 3, Len(s))

\* Whether Python's int(s, 16) returns a value (it raises ValueError
\* otherwise): surrounding whitespace is dropped, a 0x prefix is allowed,
\* and single underscores may separate digits (also right after 0x).
int16_parses(s) ==
    LET t == strip(s)
        hasPrefix == startswith_0x(t)
        u == IF hasPrefix THEN From2(t) ELSE t
        d == IF hasPrefix /\ u # <<>> /\ Head(u) = "_" THEN Tail(u) ELSE u
    IN  /\ d # <<>>
        /\ \A i \in 1..Len(d) : d[i] \in HexDigits \cup {"_"}
        /\ d[1] # "_" /\ d[Len(d)] # "_"
        /\ \A i \in 1..(Len(d) - 1) : ~(d[i] = "_" /\ d[i + 1] = "_")

\* The length the code requires: "0x" and the hex digits (66 in the code).
HashLen == 2 + HexLen

\* Mutant of normalize_hash: the final .lower() is forgotten.
normalize_hash_no_lower(tx_hash) ==
    LET s == strip(tx_hash)
        t == IF startswith_0x(s) THEN s ELSE <<"0", "x">> \o s
    IN  IF Len(t) # HashLen THEN None
        ELSE IF ~int16_parses(From2(t)) THEN None
        ELSE Some(t)

\* tx_fee_compare.normalize_hash; None stands for the ValueError it raises.
normalize_hash(tx_hash) ==
    LET s == strip(tx_hash)
        t == IF startswith_0x(s) THEN s ELSE <<"0", "x">> \o s
    IN  IF Len(t) # HashLen THEN None
        ELSE IF ~int16_parses(From2(t)) THEN None
        ELSE Some(lower(t))

\* Web3.to_hex(hexstr=...): lower-cases and adds a missing 0x prefix.
to_hex(hexstr) ==
    LET l == lower(hexstr)
    IN  IF startswith_0x(l) THEN l ELSE <<"0", "x">> \o l

\* txfeebatch.normalize_hash
batch_normalize_hash(tx_hash) ==
    LET s == strip(tx_hash)
        t == IF startswith_0x(s) THEN s ELSE <<"0", "x">> \o s
        h == to_hex(t)
    IN  IF s = <<>> THEN None
        ELSE IF Len(h) # HashLen THEN None
        ELSE Some(h)

(***************************************************************************)
(* tx_fee_compare.py                                                       *)
(***************************************************************************)
TxView(ok, error, rpc, chain_id, block_number, status, gas_used, gas_price_wei, total_fee_wei, confirmations) ==
    [ok |-> ok, error |-> error, rpc |-> rpc, chain_id |-> chain_id,
     block_number |-> block_number, status |-> status, gas_used |-> gas_used,
     gas_price_wei |-> gas_price_wei, total_fee_wei |-> total_fee_wei,
     confirmations |-> confirmations]

\* Mutant of FailedView: the early return forgets the error text.
FailedView_no_error(error, rpc, chain_id) ==
    TxView(FALSE, None, rpc, chain_id, None, None, None, None, None, None)

\* The view of the four early returns: only ok, error, rpc and chain_id are set.
FailedView(error, rpc, chain_id) ==
    TxView(FALSE, error, rpc, chain_id, None, None, None, None, None, None)

\* gas_price_wei = getattr(rcpt, "effectiveGasPrice", None);
\* if gas_price_wei is None: gas_price_wei = tx.get("gasPrice")
select_gas_price(rcpt, tx) ==
    IF rcpt.effectiveGasPrice # None THEN rcpt.effectiveGasPrice ELSE tx.gasPrice

\* Mutant of total_fee: `if gas_used and gas_price_wei` (0 taken for missing).
total_fee_truthy(gas_used, gas_price_wei) ==
    IF Truthy(gas_used) /\ Truthy(gas_price_wei)
    THEN Some(Val(gas_used) * Val(gas_price_wei))
    ELSE None

total_fee(gas_used, gas_price_wei) ==
    IF gas_used # None /\ gas_price_wei # None
    THEN Some(Val(gas_used) * Val(gas_price_wei))
    ELSE None

\* Mutant of derive_confirmations: a head that could not be read counts as 0.
derive_confirmations_head_zero(latest_block, block_number) ==
    IF block_number # None
    THEN Some(PyMax(0, (IF latest_block = None THEN 0 ELSE Val(latest_block))
                       - Val(block_number) + 1))
    ELSE None

derive_confirmations(latest_block, block_number) ==
    IF latest_block # None /\ block_number # None
    THEN Some(PyMax(0, Val(latest_block) - Val(block_number) + 1))
    ELSE None

\* Mutant of build_view: a TransactionNotFound of the receipt lookup is reported
\* like the one of the transaction lookup.
build_view_receipt_not_found(src, rpc) ==
    LET chain_id == src.chain_id
        latest_block == src.block_number
    IN  IF src.tx.res = "not_found" \/ (src.tx.res = "ok" /\ src.rcpt.res = "not_found")
        THEN FailedView(<<"transaction-not-found">>, rpc, chain_id)
        ELSE IF src.tx.res = "error"
        THEN FailedView(<<"error-fetching-tx: ", src.tx.msg>>, rpc, chain_id)
        ELSE IF src.rcpt.res = "error"
        THEN FailedView(<<"error-fetching-receipt: ", src.rcpt.msg>>, rpc, chain_id)
        ELSE LET gas_price_wei == select_gas_price(src.rcpt, src.tx)
             IN  TxView(TRUE, None, rpc, chain_id, src.rcpt.blockNumber,
                        src.rcpt.status, src.rcpt.gasUsed, gas_price_wei,
                        total_fee(src.rcpt.gasUsed, gas_price_wei),
                        derive_confirmations(latest_block, src.rcpt.blockNumber))

build_view(src, rpc) ==
    LET chain_id == src.chain_id
        latest_block == src.block_number
    IN  IF src.tx.res = "not_found"
        THEN FailedView(<<"transaction-not-found">>, rpc, chain_id)
        ELSE IF src.tx.res = "error"
        THEN FailedView(<<"error-fetching-tx: ", src.tx.msg>>, rpc, chain_id)
        ELSE IF src.rcpt.res = "not_found"
        THEN FailedView(<<"pending">>, rpc, chain_id)
        ELSE IF src.rcpt.res = "error"
        THEN FailedView(<<"error-fetching-receipt: ", src.rcpt.msg>>, rpc, chain_id)
        ELSE LET gas_price_wei == select_gas_price(src.rcpt, src.tx)
             IN  TxView(TRUE, None, rpc, chain_id, src.rcpt.blockNumber,
                        src.rcpt.status, src.rcpt.gasUsed, gas_price_wei,
                        total_fee(src.rcpt.gasUsed, gas_price_wei),
                        derive_confirmations(latest_block, src.rcpt.blockNumber))

NoView == FailedView(None, "", None)

fields == <<"chain_id", "block_number", "status", "gas_used", "gas_price_wei", "total_fee_wei">>

FieldSet == {fields[i] : i \in 1..Len(fields)}

\* Mutant of compare_views: the derived total_fee_wei is not compared.
compare_views_ignores_fee(a, b) ==
    [f \in FieldSet |->
        IF a[f] = None \/ b[f] = None \/ f = "total_fee_wei" THEN TRUE ELSE a[f] = b[f]]

\* Mutant of compare_views: a field that is None on a side counts as different.
compare_views_null_differs(a, b) ==
    [f \in FieldSet |-> a[f] # None /\ b[f] # None /\ a[f] = b[f]]

\* compare_views: field -> True/False; None on either side gives True.
compare_views(a, b) ==
    [f \in FieldSet |-> IF a[f] = None \/ b[f] = None THEN TRUE ELSE a[f] = b[f]]

\* Mutant of json_comparison: the views are compared whatever their ok flags.
json_comparison_unguarded(a, b) ==
    IF b # None THEN Some(compare_views(a, Val(b))) ELSE None

\* "comparison": compare_views(v1, v2) if v1.ok and v2 and v2.ok else None
json_comparison(a, b) ==
    IF a.ok /\ b # None /\ Val(b).ok THEN Some(compare_views(a, Val(b))) ELSE None

\* mismatches = [k for k, ok in cmp_res.items() if not ok]
mismatched_fields(cmp_res) == SelectSeq(fields, LAMBDA k : ~cmp_res[k])

(***************************************************************************)
(* txfeebatch.py: one iteration of the loop of main for a valid hash.      *)
(* latest_block was read once before the loop (None when that failed).     *)
(***************************************************************************)
BatchRow(outcome, block_number, status, gas_used, gas_price_wei, total_fee_wei, confirmations) ==
    [outcome |-> outcome, block_number |-> block_number, status |-> status,
     gas_used |-> gas_used, gas_price_wei |-> gas_price_wei,
     total_fee_wei |-> total_fee_wei, confirmations |-> confirmations]

batch_gas_price(receipt, tx) ==
    IF receipt.effectiveGasPrice # None THEN receipt.effectiveGasPrice ELSE tx.gasPrice

batch_total_fee(gas_used, gas_price_wei) ==
    IF gas_used # None /\ gas_price_wei # None
    THEN Some(Val(gas_used) * Val(gas_price_wei))
    ELSE None

batch_confirmations(latest_block, block_number) ==
    IF latest_block # None /\ block_number # None
    THEN Some(PyMax(0, Val(latest_block) - Val(block_number) + 1))
    ELSE None

batch_row(src) ==
    LET latest_block == src.block_number
    IN  IF src.tx.res = "not_found"
        THEN BatchRow(<<"not-found">>, None, None, None, None, None, None)
        ELSE IF src.tx.res = "error"
        THEN BatchRow(<<"error-fetching-receipt: ", src.tx.msg>>,
                      None, None, None, None, None, None)
        ELSE IF src.rcpt.res = "not_found"
        THEN BatchRow(<<"pending">>, None, None, None, None, None, None)
        ELSE IF src.rcpt.res = "error"
        THEN BatchRow(<<"error-fetching-receipt: ", src.rcpt.msg>>,
                      None, None, None, None, None, None)
        ELSE LET gas_price_wei == batch_gas_price(src.rcpt, src.tx)
             IN  BatchRow(<<"row">>, src.rcpt.blockNumber, src.rcpt.status,
                          src.rcpt.gasUsed, gas_price_wei,
                          batch_total_fee(src.rcpt.gasUsed, gas_price_wei),
                          batch_confirmations(latest_block, src.rcpt.blockNumber))

(***************************************************************************)
(* txfeeapp.py: main from the transaction lookup on.  An uncaught          *)
(* exception ends the process ("crash"); sys.exit(n) is outcome "exit".    *)
(***************************************************************************)
AppResult(outcome, code, gas_price, fee_wei, confirmations) ==
    [outcome |-> outcome, exit_code |-> code, gas_price |-> gas_price,
     fee_wei |-> fee_wei, confirmations |-> confirmations]

\* gas_price = getattr(rcpt, "effectiveGasPrice", None) or getattr(rcpt, "gasPrice", None)
\* if gas_price is None: gas_price = 0
app_gas_price(rcpt) ==
    LET g == PyOr(rcpt.effectiveGasPrice, rcpt.gasPrice)
    IN  IF g = None THEN 0 ELSE Val(g)

\* confirmations = w3.eth.block_number - block_number
app_confirmations(latest_block, block_number) == latest_block - block_number

app_main(src) ==
    IF src.chain_id = None
    THEN AppResult("crash", Some(1), None, None, None)
    ELSE IF src.tx.res # "ok"
    THEN AppResult("exit", Some(2), None, None, None)
    ELSE IF src.tx.blockNumber = None
    THEN AppResult("exit", Some(0), None, None, None)
    ELSE IF src.rcpt.res # "ok"
    THEN AppResult("exit", Some(2), None, None, None)
    ELSE LET gas_price == app_gas_price(src.rcpt)
         IN  IF src.rcpt.blockNumber = None
                \/ (gas_price # 0 /\ src.rcpt.gasUsed = None)
                \/ src.block_number = None
             THEN AppResult("crash", Some(1), None, None, None)
             ELSE AppResult("done", Some(0), Some(gas_price),
                            Some(IF gas_price # 0
                                 THEN Val(src.rcpt.gasUsed) * gas_price ELSE 0),
                            Some(app_confirmations(Val(src.block_number),
                                                   Val(src.rcpt.blockNumber))))

(***************************************************************************)
(* compare_etherscan_vs_rpc.py: fetch_via_rpc.  feeWei is the argument     *)
(* handed to from_wei.                                                     *)
(***************************************************************************)
\* "gasPrice": tx.get("gasPrice", None) or receipt.get("effectiveGasPrice")
rpc_gas_price(receipt, tx) == PyOr(tx.gasPrice, receipt.effectiveGasPrice)

\* tx.get("gasPrice", 0) or receipt.get("effectiveGasPrice", 0)
rpc_fee_price(receipt, tx) ==
    IF Truthy(tx.gasPrice) THEN Val(tx.gasPrice)
    ELSE IF receipt.effectiveGasPrice # None THEN Val(receipt.effectiveGasPrice)
    ELSE 0

fetch_via_rpc(src) ==
    IF src.rcpt.res # "ok" \/ src.tx.res # "ok" \/ src.rcpt.gasUsed = None
    THEN [res |-> "raise", status |-> None, gasUsed |-> None, gasPrice |-> None,
          feeWei |-> None]
    ELSE [res |-> "ok", status |-> src.rcpt.status, gasUsed |-> src.rcpt.gasUsed,
          gasPrice |-> rpc_gas_price(src.rcpt, src.tx),
          feeWei |-> Some(Val(src.rcpt.gasUsed) * rpc_fee_price(src.rcpt, src.tx))]

(***************************************************************************)
(* txfeecompare.py: check_endpoint.  The fields rpc_url, from_addr,        *)
(* to_addr and block_time of EndpointResult take no part in any decision   *)
(* and are left out.  raised marks an exception that leaves the function.  *)
(***************************************************************************)
EndpointResult(label, connected, chain_id, error, tx_found, pending, block_number, status, gas_used, gas_price_wei, total_fee_wei, confirmations) ==
    [label |-> label, raised |-> FALSE, connected |-> connected,
     chain_id |-> chain_id, error |-> error, tx_found |-> tx_found,
     pending |-> pending, block_number |-> block_number, status |-> status,
     gas_used |-> gas_used, gas_price_wei |-> gas_price_wei,
     total_fee_wei |-> total_fee_wei, confirmations |-> confirmations]

EndpointRaised(label) ==
    [EndpointResult(label, TRUE, None, None, FALSE, FALSE, None, None, None, None,
                    None, None) EXCEPT !.raised = TRUE]

endpoint_gas_price(receipt, tx) ==
    IF receipt.effectiveGasPrice # None THEN receipt.effectiveGasPrice ELSE tx.gasPrice

endpoint_total_fee(gas_used, gas_price_wei) ==
    IF gas_used # None /\ gas_price_wei # None
    THEN Some(Val(gas_used) * Val(gas_price_wei))
    ELSE None

endpoint_confirmations(latest_block, block_number) ==
    PyMax(0, latest_block - block_number + 1)

check_endpoint(label, src, connected) ==
    IF ~connected
    THEN EndpointResult(label, FALSE, None, <<"could not connect">>, FALSE, FALSE,
                        None, None, None, None, None, None)
    ELSE IF src.tx.res = "not_found"
    THEN EndpointResult(label, TRUE, src.chain_id, <<"transaction not found">>,
                        FALSE, FALSE, None, None, None, None, None, None)
    ELSE IF src.tx.res = "error"
    THEN EndpointRaised(label)
    ELSE IF src.rcpt.res = "not_found"
    THEN EndpointResult(label, TRUE, src.chain_id, None, TRUE, TRUE,
                        None, None, None, None, None, None)
    ELSE IF src.rcpt.res = "error"
    THEN EndpointRaised(label)
    ELSE IF src.rcpt.blockNumber = None
    THEN EndpointResult(label, TRUE, src.chain_id, None, TRUE, TRUE,
                        None, None, None, None, None, None)
    ELSE IF src.block_number = None
    THEN EndpointRaised(label)
    ELSE LET gas_price_wei == endpoint_gas_price(src.rcpt, src.tx)
         IN  EndpointResult(label, TRUE, src.chain_id, None, TRUE, FALSE,
                            src.rcpt.blockNumber, src.rcpt.status, src.rcpt.gasUsed,
                            gas_price_wei,
                            endpoint_total_fee(src.rcpt.gasUsed, gas_price_wei),
                            Some(endpoint_confirmations(Val(src.block_number),
                                                        Val(src.rcpt.blockNumber))))

(***************************************************************************)
(* txfeecompare.py: summarize_inconsistencies.  A note is its text and     *)
(* whether it starts with the warning sign.                                *)
(***************************************************************************)
Note(warning, text) == [warning |-> warning, text |-> text]

is_ok_result(r) == r.connected /\ r.tx_found /\ ~r.pending

\* collect(field): the dict from each value of the field to the labels of the
\* endpoints that report it.
collect(ok_results, field) ==
    [v \in {ok_results[i][field] : i \in 1..Len(ok_results)} |->
        SelectSeq([i \in 1..Len(ok_results) |-> ok_results[i].label],
                  LAMBDA l : \E i \in 1..Len(ok_results) :
                                ok_results[i].label = l /\ ok_results[i][field] = v)]

\* The fields in the order summarize_inconsistencies checks them, each with
\* the text of its warning.
checked_fields ==
    << <<"chain_id", "Mismatched chainId across endpoints.">>,
       <<"status", "Mismatched transaction status across endpoints.">>,
       <<"block_number", "Mismatched block number across endpoints.">>,
       <<"gas_used", "Mismatched gasUsed across endpoints.">>,
       <<"gas_price_wei", "Mismatched gas price across endpoints (can happen with different EIP-1559 views).">>,
       <<"total_fee_wei", "Mismatched total fee across endpoints.">> >>

consistent_note ==
    Note(FALSE, "All checked fields are consistent across reachable endpoints.")

summarize_inconsistencies(res) ==
    LET ok_results == SelectSeq(res, is_ok_result)
        differing == SelectSeq(checked_fields,
                        LAMBDA c : Cardinality(DOMAIN collect(ok_results, c[1])) > 1)
        warnings == [i \in 1..Len(differing) |-> Note(TRUE, differing[i][2])]
    IN  IF Len(ok_results) < 2 THEN <<>>
        ELSE IF warnings = <<>> THEN <<consistent_note>>
        ELSE warnings

\* any(n.startswith(warning sign) for n in notes)
has_warning(ns) == \E i \in 1..Len(ns) : ns[i].warning

(***************************************************************************)
(* The single-source programs, each run once on the source w3.             *)
(***************************************************************************)
NoArgs == [tx_hash |-> <<>>, rpc |-> <<>>, json |-> FALSE]

IdleView ==
    /\ w3 = NoSource /\ view = NoView
    /\ row = None /\ app = None /\ rpcres = None /\ endpoint = None

IdleMain ==
    /\ args = NoArgs /\ w3_2 = FALSE /\ v1 = NoView /\ v2 = None
    /\ comparison = None /\ mismatches = <<>>

IdleMulti == results = <<>> /\ notes = <<>>

IdleHash == raw = <<>> /\ norm = None /\ bnorm = None /\ again = None

NoBatchArgs == [tx |-> <<>>, min_confirmations |-> 0, max_fee_eth |-> None]

IdleBatch ==
    /\ bargs = NoBatchArgs /\ hashes_raw = <<>> /\ batch_latest = None
    /\ any_error = FALSE /\ any_fee_violation = FALSE /\ printed = <<>>

IdleStep == queries = <<>> /\ frame = NoSource /\ returned = 0

InitView ==
    /\ pc = "start"
    /\ w3 \in Sources
    /\ view = NoView
    /\ row = None /\ app = None /\ rpcres = None /\ endpoint = None
    /\ IdleMain /\ IdleMulti /\ IdleHash /\ IdleBatch /\ IdleStep
    /\ exit_code = None

BuildView ==
    /\ pc = "start"
    /\ view' = build_view(w3, "rpc1")
    /\ pc' = "build_view"
    /\ UNCHANGED <<w3, row, app, rpcres, endpoint>>
    /\ UNCHANGED <<mainVars, multiVars, exit_code, hashVars, batchVars, stepVars>>

BatchIteration ==
    /\ pc = "start"
    /\ row' = Some(batch_row(w3))
    /\ pc' = "batch_row"
    /\ UNCHANGED <<w3, view, app, rpcres, endpoint>>
    /\ UNCHANGED <<mainVars, multiVars, exit_code, hashVars, batchVars, stepVars>>

AppMain ==
    /\ pc = "start"
    /\ app' = Some(app_main(w3))
    /\ pc' = "app_main"
    /\ UNCHANGED <<w3, view, row, rpcres, endpoint>>
    /\ UNCHANGED <<mainVars, multiVars, exit_code, hashVars, batchVars, stepVars>>

FetchViaRpc ==
    /\ pc = "start"
    /\ rpcres' = Some(fetch_via_rpc(w3))
    /\ pc' = "fetch_via_rpc"
    /\ UNCHANGED <<w3, view, row, app, endpoint>>
    /\ UNCHANGED <<mainVars, multiVars, exit_code, hashVars, batchVars, stepVars>>

CheckEndpoint ==
    /\ pc = "start"
    /\ endpoint' = Some(check_endpoint("RPC 1", w3, TRUE))
    /\ pc' = "check_endpoint"
    /\ UNCHANGED <<w3, view, row, app, rpcres>>
    /\ UNCHANGED <<mainVars, multiVars, exit_code, hashVars, batchVars, stepVars>>

NextView ==
    \/ BuildView
    \/ BatchIteration
    \/ AppMain
    \/ FetchViaRpc
    \/ CheckEndpoint

SpecView == InitView /\ [][NextView]_vars
(***************************************************************************)
(* normalize_hash applied to an input string, then to its own output.      *)
(***************************************************************************)
MaxRawLen == HashLen + 1

InitHash ==
    /\ pc = "start"
    /\ raw \in Strings(MaxRawLen)
    /\ norm = None /\ bnorm = None /\ again = None
    /\ IdleView /\ IdleMain /\ IdleMulti /\ IdleBatch /\ IdleStep
    /\ exit_code = None

NormalizeHash ==
    /\ pc = "start"
    /\ norm' = normalize_hash(raw)
    /\ pc' = IF norm' = None THEN "invalid_hash" ELSE "normalized"
    /\ UNCHANGED <<raw, bnorm, again>>
    /\ UNCHANGED <<viewVars, mainVars, multiVars, exit_code, batchVars, stepVars>>

NormalizeHashAgain ==
    /\ pc = "normalized"
    /\ again' = normalize_hash(Val(norm))
    /\ pc' = "renormalized"
    /\ UNCHANGED <<raw, norm, bnorm>>
    /\ UNCHANGED <<viewVars, mainVars, multiVars, exit_code, batchVars, stepVars>>

BatchNormalizeHash ==
    /\ pc = "start"
    /\ bnorm' = batch_normalize_hash(raw)
    /\ pc' = IF bnorm' = None THEN "batch_invalid_hash" ELSE "batch_normalized"
    /\ UNCHANGED <<raw, norm, again>>
    /\ UNCHANGED <<viewVars, mainVars, multiVars, exit_code, batchVars, stepVars>>

BatchNormalizeHashAgain ==
    /\ pc = "batch_normalized"
    /\ again' = batch_normalize_hash(Val(bnorm))
    /\ pc' = "batch_renormalized"
    /\ UNCHANGED <<raw, norm, bnorm>>
    /\ UNCHANGED <<viewVars, mainVars, multiVars, exit_code, batchVars, stepVars>>

NextHash ==
    \/ NormalizeHash
    \/ NormalizeHashAgain
    \/ BatchNormalizeHash
    \/ BatchNormalizeHashAgain

SpecHash == InitHash /\ [][NextHash]_vars

(***************************************************************************)
(* The comparison programs: tx_fee_compare.main (primary and optional      *)
(* secondary RPC) and txfeecompare.main (a list of RPCs).                  *)
(***************************************************************************)
\* The answers the endpoints of a comparison give.  build_view and
\* check_endpoint read neither tx.blockNumber nor the receipt's gasPrice; the
\* head is a block late enough for every receipt.
CompareSources ==
    [chain_id : ChainIdAnswers,
     block_number : {Some(MaxBlock)},
     tx : {t \in TxAnswers : t.blockNumber = None /\ t.msg # "pending"},
     rcpt : {r \in ReceiptAnswers : r.gasPrice = None /\ r.msg # "pending"}]

HashSamples == {<<"0", "x">> \o [i \in 1..HexLen |-> "A"], <<"0", "x">>}

\* len(args.rpc) < 2
MinEndpoints == 2

Init ==
    /\ \/ /\ pc = "main"
          /\ args \in [tx_hash : HashSamples, rpc : {<<"rpc1">>, <<"rpc1", "rpc2">>},
                       json : BOOLEAN]
       \/ /\ pc = "multi"
          /\ args \in [tx_hash : {<<"0", "x">> \o [i \in 1..HexLen |-> "A"]},
                       rpc : {<<"rpc1">>, <<"rpc1", "rpc2">>}, json : {FALSE}]
    /\ w3_2 = FALSE /\ v1 = NoView /\ v2 = None
    /\ comparison = None /\ mismatches = <<>>
    /\ IdleView /\ IdleMulti /\ IdleHash /\ IdleBatch /\ IdleStep
    /\ exit_code = None

\* tx_hash = normalize_hash(args.tx_hash); a ValueError ends main with 1.
MainNormalize ==
    /\ pc = "main"
    /\ IF normalize_hash(args.tx_hash) = None
       THEN pc' = "main_exit" /\ exit_code' = Some(1)
       ELSE pc' = "connect_primary" /\ UNCHANGED exit_code
    /\ UNCHANGED <<viewVars, mainVars, multiVars, hashVars, batchVars, stepVars>>

\* w3_1 = connect(args.rpc1, ...); a failure ends main with 1.
ConnectPrimary ==
    /\ pc = "connect_primary"
    /\ \E connected \in BOOLEAN :
          IF connected
          THEN pc' = "connect_secondary" /\ UNCHANGED exit_code
          ELSE pc' = "main_exit" /\ exit_code' = Some(1)
    /\ UNCHANGED <<viewVars, mainVars, multiVars, hashVars, batchVars, stepVars>>

\* w3_2 = connect(args.rpc2, ...) if args.rpc2; a failure leaves w3_2 = None.
ConnectSecondary ==
    /\ pc = "connect_secondary"
    /\ IF Len(args.rpc) >= 2
       THEN \E connected \in BOOLEAN : w3_2' = connected
       ELSE w3_2' = FALSE
    /\ pc' = "build_primary"
    /\ UNCHANGED <<args, v1, v2, comparison, mismatches>>
    /\ UNCHANGED <<viewVars, multiVars, exit_code, hashVars, batchVars, stepVars>>

BuildPrimary ==
    /\ pc = "build_primary"
    /\ \E src \in CompareSources : v1' = build_view(src, args.rpc[1])
    /\ pc' = "build_secondary"
    /\ UNCHANGED <<args, w3_2, v2, comparison, mismatches>>
    /\ UNCHANGED <<viewVars, multiVars, exit_code, hashVars, batchVars, stepVars>>

BuildSecondary ==
    /\ pc = "build_secondary"
    /\ IF w3_2
       THEN \E src \in CompareSources : v2' = Some(build_view(src, args.rpc[2]))
       ELSE v2' = None
    /\ pc' = "report"
    /\ UNCHANGED <<args, w3_2, v1, comparison, mismatches>>
    /\ UNCHANGED <<viewVars, multiVars, exit_code, hashVars, batchVars, stepVars>>

\* The JSON branch and the human-readable branch of main.  comparison holds
\* out["comparison"] in the first and cmp_res in the second.
Report ==
    /\ pc = "report"
    /\ IF args.json
       THEN /\ comparison' = json_comparison(v1, v2)
            /\ mismatches' = <<>>
            /\ exit_code' = Some(IF v1.ok /\ (v2 = None \/ Val(v2).ok) THEN 0 ELSE 1)
       ELSE IF v2 # None /\ v1.ok /\ Val(v2).ok
       THEN LET cmp_res == compare_views(v1, Val(v2))
            IN  /\ comparison' = Some(cmp_res)
                /\ mismatches' = mismatched_fields(cmp_res)
                /\ exit_code' = Some(IF mismatches' # <<>> THEN 1
                                     ELSE IF v1.ok THEN 0 ELSE 1)
       ELSE /\ comparison' = None
            /\ mismatches' = <<>>
            /\ exit_code' = Some(IF v1.ok THEN 0 ELSE 1)
    /\ pc' = "reported"
    /\ UNCHANGED <<args, w3_2, v1, v2>>
    /\ UNCHANGED <<viewVars, multiVars, hashVars, batchVars, stepVars>>

\* txfeecompare.main: fewer than two --rpc end it with 1.
MultiStart ==
    /\ pc = "multi"
    /\ IF Len(args.rpc) < MinEndpoints
       THEN pc' = "multi_exit" /\ exit_code' = Some(1)
       ELSE pc' = "check_endpoints" /\ UNCHANGED exit_code
    /\ UNCHANGED <<viewVars, mainVars, multiVars, hashVars, batchVars, stepVars>>

\* One iteration of the loop over args.rpc; an exception that leaves
\* check_endpoint ends the process.
CheckNextEndpoint ==
    /\ pc = "check_endpoints"
    /\ Len(results) < Len(args.rpc)
    /\ \E connected \in BOOLEAN, src \in CompareSources :
          LET idx == Len(results) + 1
              res == check_endpoint(<<"RPC ", idx>>, src, connected)
          IN  IF res.raised
              THEN pc' = "crashed" /\ exit_code' = Some(1) /\ UNCHANGED results
              ELSE pc' = pc /\ results' = Append(results, res) /\ UNCHANGED exit_code
    /\ UNCHANGED <<notes, viewVars, mainVars, hashVars, batchVars, stepVars>>

\* notes = summarize_inconsistencies(results); return 1 if has_warning else 0
Summarize ==
    /\ pc = "check_endpoints"
    /\ Len(results) = Len(args.rpc)
    /\ notes' = summarize_inconsistencies(results)
    /\ exit_code' = Some(IF has_warning(notes') THEN 1 ELSE 0)
    /\ pc' = "summarized"
    /\ UNCHANGED <<results, viewVars, mainVars, hashVars, batchVars, stepVars>>

Next ==
    \/ MainNormalize
    \/ ConnectPrimary
    \/ ConnectSecondary
    \/ BuildPrimary
    \/ BuildSecondary
    \/ Report
    \/ MultiStart
    \/ CheckNextEndpoint
    \/ Summarize

Spec == Init /\ [][Next]_vars

(***************************************************************************)
(* txfeebatch.main: the batch run over the hashes of the command line.     *)
(***************************************************************************)
MaxBatchPrice == 5  \* effectiveGasPrice of a receipt of the batch: 0..MaxBatchPrice

\* A float keeps MantissaBits significant binary digits (53 in CPython).
MantissaBits == 2

RECURSIVE Pow2(_)
Pow2(k) == IF k = 0 THEN 1 ELSE 2 * Pow2(k - 1)

RECURSIVE bit_length(_)
bit_length(n) == IF n = 0 THEN 0 ELSE 1 + bit_length(n \div 2)

\* float(x) of a non-negative amount: the nearest value with MantissaBits
\* significant digits, a tie going to the even significand.
float(n) ==
    IF bit_length(n) <= MantissaBits THEN n
    ELSE LET q == Pow2(bit_length(n) - MantissaBits)
             lo == (n \div q) * q
             r == n - lo
         IN  IF 2 * r < q THEN lo
             ELSE IF 2 * r > q THEN lo + q
             ELSE IF (n \div q) % 2 = 0 THEN lo ELSE lo + q

\* Web3.from_wei(wei, "ether") is an exact Decimal; an amount of ether is
\* kept as the number of wei it is worth.
from_wei(wei) == wei

\* The deduplication loop of load_hashes: h not in seen.
RECURSIVE unique_hashes(_, _)
unique_hashes(hashes, seen) ==
    IF hashes = <<>> THEN <<>>
    ELSE IF Head(hashes) \in seen THEN unique_hashes(Tail(hashes), seen)
    ELSE <<Head(hashes)>> \o unique_hashes(Tail(hashes), seen \cup {Head(hashes)})

\* load_hashes(args): the --tx values (the lines of --file are stripped but
\* never appended), deduplicated.
load_hashes(a) == unique_hashes(a.tx, {})

\* Mutant of below_minimum: unknown confirmations fail the check.
below_minimum_null_fails(confirmations, min_confirmations) ==
    confirmations = None \/ Val(confirmations) < min_confirmations

\* confirmations is not None and confirmations < args.min_confirmations
below_minimum(confirmations, min_confirmations) ==
    confirmations # None /\ Val(confirmations) < min_confirmations

\* args.max_fee_eth is not None and total_fee_wei is not None and
\* float(Web3.from_wei(total_fee_wei, "ether")) > args.max_fee_eth
fee_exceeds(max_fee_eth, total_fee_wei) ==
    /\ max_fee_eth # None
    /\ total_fee_wei # None
    /\ float(from_wei(Val(total_fee_wei))) > Val(max_fee_eth)

\* Mutant of batch_exit_code: a fee violation alone does not fail the batch.
batch_exit_code_ignores_fee(err, fee) == IF err THEN 1 ELSE 0

\* if any_error or any_fee_violation: return 1; return 0
batch_exit_code(err, fee) == IF err \/ fee THEN 1 ELSE 0

\* What one iteration of the loop printed for the entry raw_h.
Line(raw_h, tx_hash, outcome, conf_warning, fee_warning) ==
    [raw |-> raw_h, tx_hash |-> tx_hash, outcome |-> outcome,
     conf_warning |-> conf_warning, fee_warning |-> fee_warning]

\* The --tx values of a run: one 32-byte hash in upper case, in lower case
\* and without the 0x prefix, another hash, and a string that is no hash.
HashUpper == <<"0", "x">> \o [i \in 1..HexLen |-> "A"]
HashLower == <<"0", "x">> \o [i \in 1..HexLen |-> "a"]
HashBare == [i \in 1..HexLen |-> "a"]
HashZero == <<"0", "x">> \o [i \in 1..HexLen |-> "0"]
HashBad == <<"0", "x">>

TxLists ==
    {<<>>, <<HashUpper>>, <<HashBad>>, <<HashUpper, HashUpper>>,
     <<HashUpper, HashLower>>, <<HashLower, HashBare>>,
     <<HashUpper, HashLower, HashUpper>>, <<HashBad, HashZero>>,
     <<HashZero, HashUpper>>, <<HashZero, HashBad>>}

\* --min-confirmations and --max-fee-eth (None: not given; a float otherwise).
MinConfirmations == {-1, 0, MaxBlock}
MaxFees == {None} \cup {Some(float(n)) : n \in {0, MaxBatchPrice - 1}}

\* The answers of the RPC inside the loop; the loop reads neither
\* tx.blockNumber nor the receipt's gasPrice, and the status only for the
\* text of the row.
BatchTxAnswers ==
    {t \in TxAnswers : t.blockNumber = None /\ t.gasPrice = None /\ t.msg # "pending"}
BatchReceiptAnswers ==
    {[res |-> "ok", msg |-> "", blockNumber |-> b, status |-> Some(1), gasUsed |-> u,
      effectiveGasPrice |-> e, gasPrice |-> None] :
        b \in Opt(1..MaxBlock), u \in Opt(0..MaxGas), e \in Opt(0..MaxBatchPrice)}
    \cup {r \in ReceiptAnswers : r.res # "ok" /\ r.msg # "pending"}

\* The receipt is asked for only when the transaction was found.
BatchAnswers ==
    {[tx |-> t, rcpt |-> r] :
        t \in {x \in BatchTxAnswers : x.res = "ok"}, r \in BatchReceiptAnswers}
    \cup {[tx |-> t, rcpt |-> NoSource.rcpt] : t \in {x \in BatchTxAnswers : x.res # "ok"}}

InitBatch ==
    /\ pc = "batch"
    /\ bargs \in [tx : TxLists, min_confirmations : MinConfirmations,
                  max_fee_eth : MaxFees]
    /\ hashes_raw = <<>> /\ batch_latest = None
    /\ any_error = FALSE /\ any_fee_violation = FALSE /\ printed = <<>>
    /\ IdleView /\ IdleMain /\ IdleMulti /\ IdleHash /\ IdleStep
    /\ exit_code = None

\* args.min_confirmations < 0 and an empty hash list end main with 1.
BatchStart ==
    /\ pc = "batch"
    /\ IF bargs.min_confirmations < 0
       THEN pc' = "batch_exit" /\ exit_code' = Some(1) /\ UNCHANGED hashes_raw
       ELSE /\ hashes_raw' = load_hashes(bargs)
            /\ IF hashes_raw' = <<>>
               THEN pc' = "batch_exit" /\ exit_code' = Some(1)
               ELSE pc' = "batch_connect" /\ UNCHANGED exit_code
    /\ UNCHANGED <<bargs, batch_latest, any_error, any_fee_violation, printed>>
    /\ UNCHANGED <<viewVars, mainVars, multiVars, hashVars, stepVars>>

\* The connection and the one read of the latest block before the loop.
BatchConnect ==
    /\ pc = "batch_connect"
    /\ \E connected \in BOOLEAN, latest \in LatestAnswers :
          IF connected
          THEN pc' = "batch_loop" /\ batch_latest' = latest /\ UNCHANGED exit_code
          ELSE pc' = "batch_exit" /\ exit_code' = Some(1) /\ UNCHANGED batch_latest
    /\ UNCHANGED <<bargs, hashes_raw, any_error, any_fee_violation, printed>>
    /\ UNCHANGED <<viewVars, mainVars, multiVars, hashVars, stepVars>>

\* One iteration of `for raw in hashes_raw`.
BatchLoop ==
    /\ pc = "batch_loop"
    /\ Len(printed) < Len(hashes_raw)
    /\ \E ans \in BatchAnswers :
          LET raw_h == hashes_raw[Len(printed) + 1]
              tx_hash == batch_normalize_hash(raw_h)
              derived == batch_row([chain_id |-> None, block_number |-> batch_latest,
                                    tx |-> ans.tx, rcpt |-> ans.rcpt])
              conf_warning ==
                  below_minimum(derived.confirmations, bargs.min_confirmations)
              fee_warning == fee_exceeds(bargs.max_fee_eth, derived.total_fee_wei)
          IN  IF tx_hash = None
              THEN /\ printed' = Append(printed,
                                    Line(raw_h, None, <<"invalid-hash">>, FALSE, FALSE))
                   /\ any_error' = TRUE
                   /\ row' = None
                   /\ UNCHANGED any_fee_violation
              ELSE IF derived.outcome = <<"pending">>
              THEN /\ printed' = Append(printed,
                                    Line(raw_h, tx_hash, derived.outcome, FALSE, FALSE))
                   /\ row' = Some(derived)
                   /\ UNCHANGED <<any_error, any_fee_violation>>
              ELSE IF derived.outcome # <<"row">>
              THEN /\ printed' = Append(printed,
                                    Line(raw_h, tx_hash, derived.outcome, FALSE, FALSE))
                   /\ any_error' = TRUE
                   /\ row' = Some(derived)
                   /\ UNCHANGED any_fee_violation
              ELSE /\ printed' = Append(printed,
                                    Line(raw_h, tx_hash, derived.outcome,
                                         conf_warning, fee_warning))
                   /\ any_error' = (any_error \/ conf_warning)
                   /\ any_fee_violation' = (any_fee_violation \/ fee_warning)
                   /\ row' = Some(derived)
    /\ pc' = pc
    /\ UNCHANGED <<bargs, hashes_raw, batch_latest, exit_code>>
    /\ UNCHANGED <<w3, view, app, rpcres, endpoint>>
    /\ UNCHANGED <<mainVars, multiVars, hashVars, stepVars>>

\* After the loop: the exit code.
BatchFinish ==
    /\ pc = "batch_loop"
    /\ Len(printed) = Len(hashes_raw)
    /\ exit_code' = Some(batch_exit_code(any_error, any_fee_violation))
    /\ pc' = "batch_done"
    /\ UNCHANGED batchVars
    /\ UNCHANGED <<viewVars, mainVars, multiVars, hashVars, stepVars>>

NextBatch ==
    \/ BatchStart
    \/ BatchConnect
    \/ BatchLoop
    \/ BatchFinish

SpecBatch == InitBatch /\ [][NextBatch]_vars

(***************************************************************************)
(* tx_fee_compare.build_view step by step: the four queries of one call on *)
(* the source w3, each a blocking request that answers or raises.          *)
(***************************************************************************)
\* build_view reads neither tx.blockNumber nor the receipt's gasPrice.
BuildSources ==
    [chain_id : ChainIdAnswers, block_number : LatestAnswers,
     tx : {t \in TxAnswers : t.blockNumber = None},
     rcpt : {r \in ReceiptAnswers : r.gasPrice = None}]

\* Mutant of after_transaction: the receipt is asked for whatever the
\* transaction lookup gave.
after_transaction_always_receipt(tx) == "bv_receipt"

\* The two `return TxView(ok=False, ...)` of the transaction lookup leave
\* the function; otherwise the receipt lookup follows.
after_transaction(tx) == IF tx.res = "ok" THEN "bv_receipt" ELSE "bv_returned"

InitBuild ==
    /\ pc = "bv_chain_id"
    /\ w3 \in BuildSources
    /\ view = NoView
    /\ row = None /\ app = None /\ rpcres = None /\ endpoint = None
    /\ queries = <<>> /\ frame = NoSource /\ returned = 0
    /\ IdleMain /\ IdleMulti /\ IdleHash /\ IdleBatch
    /\ exit_code = None

\* chain_id = int(w3.eth.chain_id), None when it raises
QueryChainId ==
    /\ pc = "bv_chain_id"
    /\ queries' = Append(queries, "chain_id")
    /\ frame' = [frame EXCEPT !.chain_id = w3.chain_id]
    /\ pc' = "bv_latest_block"
    /\ UNCHANGED <<w3, view, row, app, rpcres, endpoint, returned>>
    /\ UNCHANGED <<mainVars, multiVars, exit_code, hashVars, batchVars>>

\* latest_block = w3.eth.block_number, None when it raises
QueryLatestBlock ==
    /\ pc = "bv_latest_block"
    /\ queries' = Append(queries, "block_number")
    /\ frame' = [frame EXCEPT !.block_number = w3.block_number]
    /\ pc' = "bv_transaction"
    /\ UNCHANGED <<w3, view, row, app, rpcres, endpoint, returned>>
    /\ UNCHANGED <<mainVars, multiVars, exit_code, hashVars, batchVars>>

\* tx = w3.eth.get_transaction(tx_hash); an exception returns a failed view
QueryTransaction ==
    /\ pc = "bv_transaction"
    /\ queries' = Append(queries, "get_transaction")
    /\ frame' = [frame EXCEPT !.tx = w3.tx]
    /\ IF w3.tx.res = "ok"
       THEN UNCHANGED <<view, returned>>
       ELSE view' = build_view(frame', "rpc1") /\ returned' = returned + 1
    /\ pc' = after_transaction(w3.tx)
    /\ UNCHANGED <<w3, row, app, rpcres, endpoint>>
    /\ UNCHANGED <<mainVars, multiVars, exit_code, hashVars, batchVars>>

\* rcpt = w3.eth.get_transaction_receipt(tx_hash), then the derived fields
\* and the return of the view
QueryReceipt ==
    /\ pc = "bv_receipt"
    /\ queries' = Append(queries, "get_transaction_receipt")
    /\ frame' = [frame EXCEPT !.rcpt = w3.rcpt]
    /\ view' = build_view(frame', "rpc1")
    /\ returned' = returned + 1
    /\ pc' = "bv_returned"
    /\ UNCHANGED <<w3, row, app, rpcres, endpoint>>
    /\ UNCHANGED <<mainVars, multiVars, exit_code, hashVars, batchVars>>

NextBuild ==
    \/ QueryChainId
    \/ QueryLatestBlock
    \/ QueryTransaction
    \/ QueryReceipt

SpecBuild == InitBuild /\ [][NextBuild]_vars

\* Every request is made with a timeout and the call runs on its own, so a
\* step that can be taken is taken.
SpecBuildFair == SpecBuild /\ WF_vars(NextBuild)

(***************************************************************************)
(* Properties of the single-source programs (SpecView).                    *)
(***************************************************************************)
ViewBuilt == pc = "build_view"
RowBuilt == pc = "batch_row" /\ Val(row).outcome = <<"row">>
AppDone == pc = "app_main" /\ Val(app).outcome = "done"
RpcFetched == pc = "fetch_via_rpc" /\ Val(rpcres).res = "ok"
EndpointOk ==
    /\ pc = "check_endpoint"
    /\ ~Val(endpoint).raised
    /\ Val(endpoint).tx_found
    /\ ~Val(endpoint).pending

\* total_fee_wei of a record of derived fields is null exactly when an operand
\* is null, and the exact product otherwise.
FeeIsProduct(r) ==
    /\ (r.total_fee_wei = None) <=> (r.gas_used = None \/ r.gas_price_wei = None)
    /\ r.total_fee_wei # None =>
         Val(r.total_fee_wei) = Val(r.gas_used) * Val(r.gas_price_wei)

\* C1: in every ok=true TxView of build_view (and every mined row of the
\* batch loop) total_fee_wei is null iff gas_used or gas_price_wei is null,
\* and otherwise equals gas_used * gas_price_wei.
C1_TotalFeeIsExactProduct ==
    /\ (ViewBuilt /\ view.ok) => FeeIsProduct(view)
    /\ RowBuilt => FeeIsProduct(Val(row))

C1_Witness ==
    /\ ViewBuilt /\ view.ok
    /\ w3.rcpt.effectiveGasPrice = None
    /\ view.gas_used = Some(MaxGas)
    /\ view.total_fee_wei = Some(MaxGas * MaxPrice)

\* The confirmations the specification prescribes for the source w3.
ExpectedConfirmations ==
    IF w3.block_number # None /\ w3.rcpt.blockNumber # None
    THEN LET d == Val(w3.block_number) - Val(w3.rcpt.blockNumber) + 1
         IN  Some(IF d < 0 THEN 0 ELSE d)
    ELSE None

\* C6: every place that derives confirmations yields
\* max(0, latest_block - block_number + 1) when both are known, null
\* otherwise; never a negative value.
C6_ConfirmationsClampedEverywhere ==
    /\ (ViewBuilt /\ view.ok) => view.confirmations = ExpectedConfirmations
    /\ RowBuilt => Val(row).confirmations = ExpectedConfirmations
    /\ EndpointOk => Val(endpoint).confirmations = ExpectedConfirmations
    /\ AppDone => /\ Val(app).confirmations = ExpectedConfirmations
                  /\ Val(Val(app).confirmations) >= 0

\* C7 as stated: an ok=false view has an error and every numeric field null,
\* chain_id included; an ok=true view has no error.
C7_FailedViewAllNull ==
    ViewBuilt =>
        /\ ~view.ok =>
             /\ view.error # None
             /\ view.chain_id = None
             /\ view.block_number = None /\ view.status = None
             /\ view.gas_used = None /\ view.gas_price_wei = None
             /\ view.total_fee_wei = None /\ view.confirmations = None
        /\ view.ok => view.error = None

\* C7 amended: an ok=false view has an error and block_number, status,
\* gas_used, gas_price_wei, total_fee_wei, confirmations null, while its
\* chain_id is the answer of the chain-id query (null only when that query
\* failed); an ok=true view has no error.
C7_FailedViewKeepsChainId ==
    ViewBuilt =>
        /\ ~view.ok =>
             /\ view.error # None
             /\ view.chain_id = w3.chain_id
             /\ view.block_number = None /\ view.status = None
             /\ view.gas_used = None /\ view.gas_price_wei = None
             /\ view.total_fee_wei = None /\ view.confirmations = None
        /\ view.ok => view.error = None

C7_Witness == ViewBuilt /\ ~view.ok /\ view.chain_id # None /\ view.error # None

\* Which query of the source w3 failed, and how.
FailureOf(src) ==
    IF src.tx.res = "not_found" THEN "tx-not-found"
    ELSE IF src.tx.res = "error" THEN "tx-error"
    ELSE IF src.rcpt.res = "not_found" THEN "receipt-not-found"
    ELSE IF src.rcpt.res = "error" THEN "receipt-error"
    ELSE "none"

\* The failure a reader of the view's error text recovers from it.
KindOfError(e) ==
    IF e = None THEN "none"
    ELSE IF e = <<"transaction-not-found">> THEN "tx-not-found"
    ELSE IF e = <<"pending">> THEN "receipt-not-found"
    ELSE IF Len(e) = 2 /\ e[1] = "error-fetching-tx: " THEN "tx-error"
    ELSE IF Len(e) = 2 /\ e[1] = "error-fetching-receipt: " THEN "receipt-error"
    ELSE "unknown"

\* C8: build_view reports which query failed and how: not-found of the
\* transaction, another failure of it (with the message), not-found of the
\* receipt as pending, another failure of the receipt (with the message);
\* the error of the view tells the four apart.
C8_FailureClassified ==
    ViewBuilt =>
        /\ view.ok <=> FailureOf(w3) = "none"
        /\ KindOfError(view.error) = FailureOf(w3)
        /\ FailureOf(w3) = "tx-error" => view.error[2] = w3.tx.msg
        /\ FailureOf(w3) = "receipt-error" => view.error[2] = w3.rcpt.msg

C8_Witness ==
    /\ ViewBuilt /\ ~view.ok
    /\ w3.tx.res = "ok" /\ w3.rcpt.res = "not_found"
    /\ view.error = <<"pending">>

\* The price the ordered preference prescribes for the source w3.
PreferredGasPrice ==
    IF w3.rcpt.effectiveGasPrice # None THEN w3.rcpt.effectiveGasPrice
    ELSE w3.tx.gasPrice

\* C9: every fee computation takes the receipt's effective gas price when
\* present (0 included), else the transaction's declared price, and null
\* only when both are absent.
C9_EffectivePricePreferredEverywhere ==
    /\ (ViewBuilt /\ view.ok) => view.gas_price_wei = PreferredGasPrice
    /\ RowBuilt => Val(row).gas_price_wei = PreferredGasPrice
    /\ EndpointOk => Val(endpoint).gas_price_wei = PreferredGasPrice
    /\ RpcFetched => Val(rpcres).gasPrice = PreferredGasPrice
    /\ AppDone => Val(app).gas_price = PreferredGasPrice
(***************************************************************************)
(* Properties of normalize_hash (SpecHash).                                *)
(***************************************************************************)
Spaces(n) == [i \in 1..n |-> " "]
Prefixes == {<<>>, <<"0", "x">>}
IsHexString(h) == Len(h) = HexLen /\ \A i \in 1..HexLen : h[i] \in HexDigits

\* The canonical form of the hex digits h, written out digit by digit.
Canonical(h) ==
    <<"0", "x">> \o [i \in 1..HexLen |-> IF h[i] \in {"a", "A"} THEN "a" ELSE "0"]

\* The hex digits of which raw is the variant with prefix p, l spaces before
\* and r spaces after; <<>> when raw is no such variant.
VariantDigits(p, l, r) ==
    LET h == SubSeq(raw, l + Len(p) + 1, Len(raw) - r)
    IN  IF IsHexString(h) /\ raw = Spaces(l) \o p \o h \o Spaces(r) THEN h ELSE <<>>

Normalized == pc \in {"normalized", "renormalized"}
BatchNormalized == pc \in {"batch_normalized", "batch_renormalized"}

\* C10: every variant of a string of hex digits (with or without 0x, any
\* letter case, surrounding whitespace) is normalized to the one lowercase
\* 0x-prefixed form, and normalizing that output returns it unchanged.
C10_VariantsShareCanonicalForm ==
    /\ pc # "start" =>
         \A p \in Prefixes, l \in 0..2, r \in 0..2 :
            LET h == VariantDigits(p, l, r)
            IN  h # <<>> =>
                  /\ pc \notin {"invalid_hash", "batch_invalid_hash"}
                  /\ Normalized => norm = Some(Canonical(h))
                  /\ BatchNormalized => bnorm = Some(Canonical(h))
    /\ pc = "renormalized" => again = norm
    /\ pc = "batch_renormalized" => again = bnorm

C10_Witness ==
    /\ pc = "renormalized"
    /\ raw = <<" ">> \o [i \in 1..HexLen |-> "A"] \o <<" ">>
    /\ norm = Some(<<"0", "x">> \o [i \in 1..HexLen |-> "a"])
    /\ again = norm

\* The input after strip() and after adding a missing 0x prefix.
Prefixed(s) == IF startswith_0x(strip(s)) THEN strip(s) ELSE <<"0", "x">> \o strip(s)

\* Exactly 0x followed by HexLen characters, each of them a hex digit.
WellFormed(s) ==
    LET t == Prefixed(s)
    IN  Len(t) = HashLen /\ IsHexString(From2(t))

\* C11: an input that, stripped and prefixed, is not exactly 0x followed by
\* HexLen hex digits is rejected by both normalize_hash functions; no input
\* with an underscore, a second 0x, inner whitespace or a non-hex character
\* is accepted.
C11_MalformedInputRejected ==
    (pc # "start" /\ ~WellFormed(raw)) => pc \in {"invalid_hash", "batch_invalid_hash"}


(***************************************************************************)
(* Properties of the reconcilers (Spec).  In tx_fee_compare a field is     *)
(* reported as mismatch when compare_views gives False for it and as match *)
(* when it gives True; no comparison at all is the neutral report.  In     *)
(* txfeecompare a field is reported as mismatch when its warning is among  *)
(* the notes and as match when the notes are there without it.             *)
(***************************************************************************)
Reported == pc = "reported"
Summarized == pc = "summarized"

BothOk == v1.ok /\ v2 # None /\ Val(v2).ok
MainOkCount == (IF v1.ok THEN 1 ELSE 0) + (IF v2 # None /\ Val(v2).ok THEN 1 ELSE 0)
MainMismatch(f) == comparison # None /\ ~Val(comparison)[f]
MainMatch(f) == comparison # None /\ Val(comparison)[f]

OkResults == {i \in 1..Len(results) : is_ok_result(results[i])}
WarningOf(f) ==
    CHOOSE t \in {checked_fields[i][2] : i \in {j \in 1..Len(checked_fields) : checked_fields[j][1] = f}} : TRUE
MultiMismatch(f) == \E i \in 1..Len(notes) : notes[i] = Note(TRUE, WarningOf(f))
MultiMatch(f) == notes # <<>> /\ ~MultiMismatch(f)

UnpricedFields == {"chain_id", "block_number", "status", "gas_used"}

\* C2: with fewer than two ok=true views no field is reported as mismatch and
\* none as match: tx_fee_compare makes no comparison, txfeecompare no note.
C2_FewerThanTwoOkIsNeutral ==
    /\ (Reported /\ MainOkCount < 2) =>
          /\ comparison = None
          /\ mismatches = <<>>
          /\ \A f \in FieldSet : ~MainMismatch(f) /\ ~MainMatch(f)
    /\ (Summarized /\ Cardinality(OkResults) < 2) =>
          /\ notes = <<>>
          /\ \A f \in FieldSet : ~MultiMismatch(f) /\ ~MultiMatch(f)

C2_Witness ==
    /\ Reported /\ args.json
    /\ v1.ok /\ v2 # None /\ ~Val(v2).ok
    /\ v1.chain_id = Some(1) /\ Val(v2).chain_id = Some(5)
    /\ comparison = None

\* C3 as stated: two ok=true views equal in chain_id, block_number, status
\* and gas_used and different in gas_price_wei are reported as mismatch for
\* gas_price_wei and total_fee_wei and as match for the other four fields.
C3_PriceDifferenceMismatchesFee ==
    /\ (Reported /\ BothOk
          /\ \A f \in UnpricedFields : v1[f] = Val(v2)[f]
          /\ v1.gas_price_wei # Val(v2).gas_price_wei) =>
            /\ MainMismatch("gas_price_wei") /\ MainMismatch("total_fee_wei")
            /\ \A f \in UnpricedFields : MainMatch(f)
    /\ (Summarized /\ Cardinality(OkResults) = 2
          /\ \A f \in UnpricedFields : results[1][f] = results[2][f]
          /\ results[1].gas_price_wei # results[2].gas_price_wei) =>
            /\ MultiMismatch("gas_price_wei") /\ MultiMismatch("total_fee_wei")
            /\ \A f \in UnpricedFields : MultiMatch(f)

\* C3 amended: two ok=true views equal in chain_id, block_number, status and
\* gas_used whose gas_price_wei are both non-null and different are reported
\* as mismatch for gas_price_wei and as match for the other four fields;
\* total_fee_wei is reported as mismatch exactly when gas_used is non-null
\* and not 0.
C3_NonNullPriceDifference ==
    /\ (Reported /\ BothOk
          /\ \A f \in UnpricedFields : v1[f] = Val(v2)[f]
          /\ v1.gas_price_wei # None /\ Val(v2).gas_price_wei # None
          /\ v1.gas_price_wei # Val(v2).gas_price_wei) =>
            /\ MainMismatch("gas_price_wei")
            /\ MainMismatch("total_fee_wei") <=> (v1.gas_used # None /\ v1.gas_used # Some(0))
            /\ ~MainMismatch("total_fee_wei") => MainMatch("total_fee_wei")
            /\ \A f \in UnpricedFields : MainMatch(f)
    /\ (Summarized /\ Cardinality(OkResults) = 2
          /\ \A f \in UnpricedFields : results[1][f] = results[2][f]
          /\ results[1].gas_price_wei # None /\ results[2].gas_price_wei # None
          /\ results[1].gas_price_wei # results[2].gas_price_wei) =>
            /\ MultiMismatch("gas_price_wei")
            /\ MultiMismatch("total_fee_wei") <=>
                 (results[1].gas_used # None /\ results[1].gas_used # Some(0))
            /\ \A f \in UnpricedFields : MultiMatch(f)

C3_Witness ==
    /\ Reported /\ BothOk /\ ~args.json
    /\ \A f \in UnpricedFields : v1[f] = Val(v2)[f] /\ v1[f] # None
    /\ v1.gas_price_wei = Some(1) /\ Val(v2).gas_price_wei = Some(2)
    /\ v1.gas_used = Some(MaxGas)
    /\ mismatches = <<"gas_price_wei", "total_fee_wei">>

\* C4: two ok=true views with identical chain_id, block_number, status,
\* gas_used and gas_price_wei are reported as match for all six fields, the
\* derived total_fee_wei included.
C4_IdenticalViewsMatch ==
    /\ (Reported /\ BothOk
          /\ \A f \in UnpricedFields \cup {"gas_price_wei"} : v1[f] = Val(v2)[f]) =>
            /\ \A f \in FieldSet : MainMatch(f)
            /\ mismatches = <<>>
    /\ (Summarized /\ Cardinality(OkResults) = 2
          /\ \A f \in UnpricedFields \cup {"gas_price_wei"} :
                results[1][f] = results[2][f]) =>
            /\ \A f \in FieldSet : MultiMatch(f)
            /\ notes = <<consistent_note>>

C4_Witness ==
    /\ Reported /\ BothOk /\ args.json
    /\ \A f \in FieldSet : v1[f] = Val(v2)[f] /\ v1[f] # None
    /\ v1.total_fee_wei = Some(MaxGas * MaxPrice)
    /\ \A f \in FieldSet : Val(comparison)[f]
    /\ exit_code = Some(0)

\* Two ok=true views hold different non-null values of the field f.
NonNullValuesDiffer(S, f) == \E a, b \in S : a[f] # None /\ b[f] # None /\ a[f] # b[f]

\* C5: with at least two ok=true views a field is reported as mismatch exactly
\* when two of them hold different non-null values of it; a null next to a
\* value, or nulls only, is no mismatch.
C5_OnlyNonNullValuesDecide ==
    /\ (Reported /\ BothOk) =>
          \A f \in FieldSet : MainMismatch(f) <=> NonNullValuesDiffer({v1, Val(v2)}, f)
    /\ (Summarized /\ Cardinality(OkResults) >= 2) =>
          \A f \in FieldSet :
             MultiMismatch(f) <=> NonNullValuesDiffer({results[i] : i \in OkResults}, f)

(***************************************************************************)
(* Properties of the batch run (SpecBatch).                                *)
(***************************************************************************)
BatchDone == pc = "batch_done"
Loaded == pc \in {"batch_connect", "batch_loop", "batch_done"}

\* The last line printed by the loop, and whether it is the row of a mined
\* transaction (then row holds the fields derived for it).
LastLine == printed[Len(printed)]
RowPrinted == pc = "batch_loop" /\ printed # <<>> /\ LastLine.outcome = <<"row">>

\* The form under which two inputs are the same hash: the canonical form of
\* a hash, the input itself for a string that is no hash.
CanonicalKey(h) ==
    IF batch_normalize_hash(h) = None THEN h ELSE Val(batch_normalize_hash(h))

\* The first occurrence of each canonical form, in first-seen order.
RECURSIVE FirstSeen(_, _)
FirstSeen(hashes, seen) ==
    IF hashes = <<>> THEN <<>>
    ELSE IF CanonicalKey(Head(hashes)) \in seen THEN FirstSeen(Tail(hashes), seen)
    ELSE <<Head(hashes)>>
         \o FirstSeen(Tail(hashes), seen \cup {CanonicalKey(Head(hashes))})

\* C12: the deduplicated list keeps the first occurrence of each hash in
\* first-seen order, two inputs with the same canonical form being one hash,
\* and no canonical hash is processed twice.
C12_DedupOnCanonicalForm ==
    /\ Loaded => hashes_raw = FirstSeen(bargs.tx, {})
    /\ \A i, j \in 1..Len(printed) :
          (i # j /\ printed[i].tx_hash # None) => printed[i].tx_hash # printed[j].tx_hash

\* C13: for a mined transaction the confirmation check fails exactly when
\* confirmations is known and smaller than min_confirmations; a failed check
\* sets any_error and the batch ends with exit code 1.
C13_ConfirmationCheck ==
    /\ RowPrinted =>
         /\ LastLine.conf_warning <=>
              /\ Val(row).confirmations # None
              /\ Val(Val(row).confirmations) < bargs.min_confirmations
         /\ LastLine.conf_warning => any_error
    /\ BatchDone =>
         ((\E i \in 1..Len(printed) : printed[i].conf_warning) => exit_code = Some(1))

C13_Witness ==
    /\ BatchDone
    /\ bargs.min_confirmations = MaxBlock
    /\ row # None
    /\ Val(row).confirmations = Some(MaxBlock - 1)
    /\ LastLine.conf_warning
    /\ bargs.max_fee_eth = None
    /\ exit_code = Some(1)

\* C14: a mined transaction is flagged as a fee violation exactly when a
\* maximum fee is configured, its total fee is known and the fee is strictly
\* greater than the maximum.
C14_FeeViolationExact ==
    RowPrinted =>
        (LastLine.fee_warning <=>
            /\ bargs.max_fee_eth # None
            /\ Val(row).total_fee_wei # None
            /\ Val(Val(row).total_fee_wei) > Val(bargs.max_fee_eth))

\* The outcomes printed for a hash that is not the row of a mined transaction.
NotOkOutcome(l) == l.outcome # <<"row">>
HardFailure(l) == l.outcome \notin {<<"row">>, <<"pending">>}

\* C15 as stated: the batch ends with exit code 1 if a hash had an ok=false
\* outcome (pending included), a confirmation check failed or a fee
\* violation was flagged, whatever came after it.
C15_AnyFailureFailsBatch ==
    BatchDone =>
        ((\E i \in 1..Len(printed) :
             NotOkOutcome(printed[i]) \/ printed[i].conf_warning \/ printed[i].fee_warning)
         => exit_code = Some(1))

\* C15 as the code has it: an invalid, not-found or erroring hash, a failed
\* confirmation check or a flagged fee violation is kept in any_error or
\* any_fee_violation until the end and makes the exit code 1; a pending hash
\* on its own does not.
C15_HardFailureFailsBatch ==
    LET failed ==
            \E i \in 1..Len(printed) :
                HardFailure(printed[i]) \/ printed[i].conf_warning \/ printed[i].fee_warning
    IN  /\ pc = "batch_loop" => (failed <=> (any_error \/ any_fee_violation))
        /\ BatchDone => (exit_code = Some(IF failed THEN 1 ELSE 0))

C15_Witness ==
    /\ BatchDone
    /\ Len(printed) = 2
    /\ printed[1].outcome = <<"invalid-hash">>
    /\ printed[2].outcome = <<"row">>
    /\ ~printed[2].conf_warning /\ ~printed[2].fee_warning
    /\ exit_code = Some(1)

(***************************************************************************)
(* Properties of the exit code of tx_fee_compare.main (Spec).              *)
(***************************************************************************)
SecondaryConfigured == Len(args.rpc) >= 2
AllReachable == SecondaryConfigured => w3_2
AllViewsOk == v1.ok /\ (v2 # None => Val(v2).ok)
SomeFieldMismatch ==
    /\ v2 # None /\ v1.ok /\ Val(v2).ok
    /\ \E f \in FieldSet : v1[f] # None /\ Val(v2)[f] # None /\ v1[f] # Val(v2)[f]

\* C16: in JSON and in text mode the exit code is 0 only when every
\* configured source was reachable, every view is ok and no field is a
\* mismatch, and it is 1 whenever a view has an error or a field mismatches.
C16_ExitCodeSignalsFullSuccess ==
    Reported =>
        /\ exit_code = Some(0) => (AllReachable /\ AllViewsOk /\ ~SomeFieldMismatch)
        /\ (~AllViewsOk \/ SomeFieldMismatch) => exit_code = Some(1)

\* The run's only outcome that is not a success is "pending".
PendingView(v) == ~v.ok /\ v.error = <<"pending">>
OnlyPending ==
    /\ PendingView(v1) \/ (v2 # None /\ PendingView(Val(v2)))
    /\ v1.ok \/ PendingView(v1)
    /\ v2 # None => (Val(v2).ok \/ PendingView(Val(v2)))
    /\ AllReachable

\* C17: a run whose only non-success outcome is a pending transaction ends
\* with exit code 0.
C17_PendingIsNotAFailure == (Reported /\ OnlyPending) => exit_code = Some(0)

\* C18: with a valid hash the run never ends before the views are built: an
\* unreachable primary does not keep the secondary from being queried, and an
\* unreachable secondary leaves the primary's view to be reported alone.
C18_FailureNeverStopsTheOthers ==
    /\ (pc = "main_exit" /\ SecondaryConfigured) => normalize_hash(args.tx_hash) = None
    /\ (Reported /\ SecondaryConfigured /\ ~w3_2) => (v1 # NoView /\ v2 = None)

\* The batch half of C18 (SpecBatch): every entry of the list gets its line,
\* in order, whatever the outcome of the entries before it.
BatchLoopCoversEveryHash ==
    BatchDone =>
        /\ Len(printed) = Len(hashes_raw)
        /\ \A i \in 1..Len(printed) : printed[i].raw = hashes_raw[i]

(***************************************************************************)
(* Properties of one build_view call (SpecBuild, SpecBuildFair).           *)
(***************************************************************************)
ViewReturned == pc = "bv_returned"
QueryOrder == <<"chain_id", "block_number", "get_transaction", "get_transaction_receipt">>
Asked(q) == \E i \in 1..Len(queries) : queries[i] = q

\* C19: a failed chain-id or latest-block query never makes the view ok=false
\* and never keeps the transaction and the receipt from being queried; the
\* first only leaves chain_id null, the second only confirmations null, and
\* block_number, status, gas_used, gas_price_wei and total_fee_wei are what
\* the transaction and the receipt give.
C19_AuxiliaryQueriesAreNotFatal ==
    ViewReturned =>
        /\ Asked("get_transaction")
        /\ w3.tx.res = "ok" => Asked("get_transaction_receipt")
        /\ view.ok <=> (w3.tx.res = "ok" /\ w3.rcpt.res = "ok")
        /\ view.chain_id = w3.chain_id
        /\ w3.block_number = None => view.confirmations = None
        /\ view.ok =>
             /\ view.block_number = w3.rcpt.blockNumber
             /\ view.status = w3.rcpt.status
             /\ view.gas_used = w3.rcpt.gasUsed
             /\ view.gas_price_wei =
                  (IF w3.rcpt.effectiveGasPrice # None
                   THEN w3.rcpt.effectiveGasPrice ELSE w3.tx.gasPrice)
             /\ view.total_fee_wei =
                  (IF view.gas_used # None /\ view.gas_price_wei # None
                   THEN Some(Val(view.gas_used) * Val(view.gas_price_wei)) ELSE None)
             /\ (w3.block_number # None /\ view.block_number # None)
                  => view.confirmations # None

C19_Witness ==
    /\ ViewReturned
    /\ w3.chain_id = None /\ w3.block_number = None
    /\ view.ok /\ view.chain_id = None /\ view.confirmations = None
    /\ view.block_number # None /\ view.total_fee_wei # None
    /\ Len(queries) = 4

\* The safety part of C20.
QueriesInOrder ==
    /\ Len(queries) <= Len(QueryOrder)
    /\ queries = SubSeq(QueryOrder, 1, Len(queries))
    /\ Asked("get_transaction_receipt") => w3.tx.res = "ok"
    /\ returned = (IF ViewReturned THEN 1 ELSE 0)
    /\ (ViewReturned /\ w3.tx.res # "ok") => (Len(queries) = 3 /\ ~view.ok)
    /\ (ViewReturned /\ w3.tx.res = "ok" /\ w3.rcpt.res # "ok")
         => (Len(queries) = 4 /\ ~view.ok)

====
